---- MODULE Spec2Model ----
(***************************************************************************)
(* A state-machine model of the ocean cellular automaton (ocean-ca).       *)
(*                                                                         *)
(* The engine state is the grid of Cell records, the organism-id           *)
(* allocator, the ambient current, the step counter and the two            *)
(* population histories.  Every public operation of Simulation is one      *)
(* action.  step() is modelled whole: the copy of the grid, the            *)
(* environment pass, the agent pass with its `break`, the swap and the     *)
(* population tally.                                                       *)
(*                                                                         *)
(* Numbers.  Nutrient is a float in the source; here it is an integer      *)
(* count of hundredths (5.0 is 500), which represents every species        *)
(* parameter and every product the code forms exactly.  Probabilities and  *)
(* values of random.random() are integers in thousandths (0.02 is 20).     *)
(* Python's None is the integer None.                                      *)
(***************************************************************************)
EXTENDS Integers, Sequences, FiniteSets, TLC

(***************************************************************************)
(* constants.py                                                            *)
(***************************************************************************)
WATER == 0
SAND == 1
ROCK == 2
CORAL_ROCK == 3
LAVA == 4
AGENT == 5

SUBTYPE_UNSPEC == 0
SUBTYPE_ROOT == 1
SUBTYPE_STEM == 2
SUBTYPE_REPRO == 3
SUBTYPE_SPORE == 4

SPECIES_SEAWEED == 0
SPECIES_KELP == 1
SPECIES_SEAGRASS == 2
SPECIES_CORAL == 3

SPECIES_NAMES == {SPECIES_SEAWEED, SPECIES_KELP, SPECIES_SEAGRASS, SPECIES_CORAL}

\* Python's None, for species_id, subtype, agent_id and temp.
None == -1000

(***************************************************************************)
(* Bounds of the model.                                                    *)
(***************************************************************************)
\* Simulation(Width, Height): the size of the grid the engine is built with.
Width == 3
Height == 3
\* step() is enabled while time_step < MaxSteps.
MaxSteps == 2
\* Mutator calls (plant_seed, set_current, erupt_volcano, paint_area) are
\* enabled while fewer than MaxCalls of them have been made.
MaxCalls == 2

\* Simulation.width and Simulation.height, set by the constructor and never
\* written again.
VARIABLES width, height

Pos == (0 .. width - 1) \X (0 .. height - 1)

InGrid(x, y) == 0 <= x /\ x < width /\ 0 <= y /\ y < height

Max(a, b) == IF a >= b THEN a ELSE b
Min(a, b) == IF a <= b THEN a ELSE b

(***************************************************************************)
(* cell.py                                                                 *)
(***************************************************************************)
\* Cell.__init__
NewCell(cell_type) ==
    [cell_type |-> cell_type, species_id |-> None, subtype |-> None,
     nutrient |-> 0, age |-> 0, agent_id |-> None, temp |-> None,
     spore_age |-> 0]

is_agent(c) == c.cell_type = AGENT

is_environment(c) == c.cell_type \in {WATER, SAND, ROCK, CORAL_ROCK, LAVA}

(***************************************************************************)
(* species.py: the species table.  Nutrient amounts in hundredths,         *)
(* base_repro_prob in thousandths.                                         *)
(***************************************************************************)
species_defs ==
    [sid \in SPECIES_NAMES |->
       CASE sid = SPECIES_SEAWEED ->
              [allowed_substrates |-> {ROCK, CORAL_ROCK},
               growth_threshold |-> 1000, substrate_absorb_rate |-> 100,
               light_absorb_rate |-> 100, base_repro_prob |-> 20,
               repro_age |-> 8, max_age |-> 50, spore_life |-> 15,
               initial_nutrient |-> 500]
         [] sid = SPECIES_KELP ->
              [allowed_substrates |-> {ROCK},
               growth_threshold |-> 1200, substrate_absorb_rate |-> 150,
               light_absorb_rate |-> 120, base_repro_prob |-> 15,
               repro_age |-> 10, max_age |-> 60, spore_life |-> 20,
               initial_nutrient |-> 600]
         [] sid = SPECIES_SEAGRASS ->
              [allowed_substrates |-> {SAND},
               growth_threshold |-> 800, substrate_absorb_rate |-> 120,
               light_absorb_rate |-> 80, base_repro_prob |-> 25,
               repro_age |-> 7, max_age |-> 45, spore_life |-> 12,
               initial_nutrient |-> 400]
         [] sid = SPECIES_CORAL ->
              [allowed_substrates |-> {ROCK, CORAL_ROCK},
               growth_threshold |-> 1500, substrate_absorb_rate |-> 100,
               light_absorb_rate |-> 150, base_repro_prob |-> 10,
               repro_age |-> 12, max_age |-> 80, spore_life |-> 25,
               initial_nutrient |-> 700]]

\* MarinePlantSpecies.can_attach
can_attach(spec, below_type) == below_type \in spec.allowed_substrates

\* A reproduction chance without the age gate.
reproduce_chance_ungated(spec, age) == spec.base_repro_prob

\* MarinePlantSpecies.reproduce_chance
reproduce_chance(spec, age) ==
    IF age < spec.repro_age THEN 0 ELSE spec.base_repro_prob

(***************************************************************************)
(* environment.py: update_environment(old_grid, new_grid, width, height).  *)
(* Both loops write into new_grid cell by cell, in scan order.             *)
(***************************************************************************)
\* new_grid[y][x].cell_type = SAND ; new_grid[y][x].temp = None
PutSand(new, x, y) ==
    [new EXCEPT ![<<x, y>>] = [@ EXCEPT !.cell_type = SAND, !.temp = None]]

\* new_grid[y][x].cell_type = WATER
PutWater(new, x, y) ==
    [new EXCEPT ![<<x, y>>] = [@ EXCEPT !.cell_type = WATER]]

\* A sand rule without the diagonal slip: sand falls straight down or stays.
SandCellNoSlip(old, new, x, y) ==
    IF old[<<x, y>>].cell_type = SAND /\ old[<<x, y + 1>>].cell_type = WATER
    THEN PutSand(PutWater(new, x, y), x, y + 1)
    ELSE new

\* A sand rule that slips down-left only.
SandCellLeftOnly(old, new, x, y) ==
    IF old[<<x, y>>].cell_type # SAND THEN new
    ELSE IF old[<<x, y + 1>>].cell_type = WATER
         THEN PutSand(PutWater(new, x, y), x, y + 1)
    ELSE IF x > 0 /\ old[<<x - 1, y + 1>>].cell_type = WATER
         THEN PutSand(PutWater(new, x, y), x - 1, y + 1)
    ELSE new

\* The body of the sand loop for one cell (x, y), y <= height - 2.
SandCell(old, new, x, y) ==
    IF old[<<x, y>>].cell_type # SAND THEN new
    ELSE IF old[<<x, y + 1>>].cell_type = WATER
         THEN PutSand(PutWater(new, x, y), x, y + 1)
    ELSE IF x > 0 /\ old[<<x - 1, y + 1>>].cell_type = WATER
         THEN PutSand(PutWater(new, x, y), x - 1, y + 1)
    ELSE IF x < width - 1 /\ old[<<x + 1, y + 1>>].cell_type = WATER
         THEN PutSand(PutWater(new, x, y), x + 1, y + 1)
    ELSE new

\* for y in range(height - 2, -1, -1): for x in range(width): the i-th cell
\* of that scan is (i % width, height - 2 - i // width).
RECURSIVE SandPass(_, _, _)
SandPass(old, new, i) ==
    IF i >= width * (height - 1) THEN new
    ELSE SandPass(old,
                  SandCell(old, new, i % width, height - 2 - (i \div width)),
                  i + 1)

\* The orthogonal neighbours the lava loop visits, in the code's order.
LavaDirs == <<<<-1, 0>>, <<1, 0>>, <<0, -1>>, <<0, 1>>>>

\* A cooling that takes 4 off the temperature.
CooledTempSlow(c) == (IF c.temp = None THEN 100 ELSE c.temp) - 4

\* The temperature a lava cell cools to: 100 if unset, minus the cool rate.
CooledTemp(c) == (IF c.temp = None THEN 100 ELSE c.temp) - 5

\* A spread that makes every in-grid neighbour that is not Lava a Lava cell
\* at temp - 10, whatever it was.
RECURSIVE LavaSpreadAnywhere(_, _, _, _, _, _)
LavaSpreadAnywhere(old, new, x, y, temp, i) ==
    IF i > Len(LavaDirs) THEN new
    ELSE LET nx == x + LavaDirs[i][1]
             ny == y + LavaDirs[i][2]
         IN  LavaSpreadAnywhere(old,
                        IF InGrid(nx, ny) /\ old[<<nx, ny>>].cell_type # LAVA
                        THEN [new EXCEPT ![<<nx, ny>>] =
                                [@ EXCEPT !.cell_type = LAVA, !.temp = temp - 10]]
                        ELSE new,
                        x, y, temp, i + 1)

\* for dx, dy in [(-1, 0), (1, 0), (0, -1), (0, 1)]: each in-grid neighbour
\* that is Water in old_grid becomes Lava at temp - 10 in new_grid.
RECURSIVE LavaSpread(_, _, _, _, _, _)
LavaSpread(old, new, x, y, temp, i) ==
    IF i > Len(LavaDirs) THEN new
    ELSE LET nx == x + LavaDirs[i][1]
             ny == y + LavaDirs[i][2]
         IN  LavaSpread(old,
                        IF InGrid(nx, ny) /\ old[<<nx, ny>>].cell_type = WATER
                        THEN [new EXCEPT ![<<nx, ny>>] =
                                [@ EXCEPT !.cell_type = LAVA, !.temp = temp - 10]]
                        ELSE new,
                        x, y, temp, i + 1)

\* A lava rule that reads the grid being written: lava created earlier in
\* the same pass cools and spreads in that pass too.
LavaCellInPlace(old, new, x, y) ==
    IF new[<<x, y>>].cell_type # LAVA THEN new
    ELSE LET temp == CooledTemp(new[<<x, y>>])
         IN  IF temp <= 0
             THEN [new EXCEPT ![<<x, y>>] =
                       [@ EXCEPT !.cell_type = ROCK, !.temp = None]]
             ELSE LavaSpread(new,
                             [new EXCEPT ![<<x, y>>] = [@ EXCEPT !.temp = temp]],
                             x, y, temp, 1)

\* The body of the lava loop for one cell (x, y).
LavaCell(old, new, x, y) ==
    IF old[<<x, y>>].cell_type # LAVA THEN new
    ELSE LET temp == CooledTemp(old[<<x, y>>])
         IN  IF temp <= 0
             THEN [new EXCEPT ![<<x, y>>] =
                       [@ EXCEPT !.cell_type = ROCK, !.temp = None]]
             ELSE LavaSpread(old,
                             [new EXCEPT ![<<x, y>>] = [@ EXCEPT !.temp = temp]],
                             x, y, temp, 1)

\* for y in range(height): for x in range(width)
RECURSIVE LavaPass(_, _, _)
LavaPass(old, new, i) ==
    IF i >= width * height THEN new
    ELSE LavaPass(old, LavaCell(old, new, i % width, i \div width), i + 1)

update_environment(old, new) == LavaPass(old, SandPass(old, new, 0), 0)

(***************************************************************************)
(* The random stream.  Each draw the code makes is an input of the step:   *)
(* random.random() is drawn from RandomDraws (thousandths), the five       *)
(* (randint(-3, 3), randint(-3, 3)) offsets of a spawn from TrySeqs, and   *)
(* the result of random.shuffle(dirs) from ShuffleOrders.  A draw is made  *)
(* only on the path where the code makes it.                               *)
(***************************************************************************)
\* Values of random.random(): 0.0 is below every positive probability, 0.6
\* is above every base_repro_prob and above a current strength of 0.5.
RandomDraws == {0, 600}

\* Number of placement attempts of a spawn: for _ in range(5).
ReproAttempts == 5
\* random.randint(-3, 3)
ReproRadius == 3

SpawnOffsets == (-ReproRadius .. ReproRadius) \X (-ReproRadius .. ReproRadius)

\* The offsets of the five attempts: a first attempt, then four equal ones,
\* where either all five are equal or the first is (0, 0), the parent's own
\* cell, which is never Water.  Every result the five draws can have (no
\* spot, or any one eligible spot, found at the first attempt or after a
\* failed one) is the result of some such sequence.
TrySeqs ==
    {[i \in 1 .. ReproAttempts |-> IF i = 1 THEN ab[1] ELSE ab[2]] :
        ab \in {<<b, b>> : b \in SpawnOffsets}
               \cup {<<<<0, 0>>, b>> : b \in SpawnOffsets}}

\* dirs = [(0, -1), (-1, 0), (1, 0), (0, 1)]
GrowthDirs == {<<0, -1>>, <<-1, 0>>, <<1, 0>>, <<0, 1>>}

\* Every order random.shuffle(dirs) can leave dirs in.
ShuffleOrders ==
    {o \in [1 .. 4 -> GrowthDirs] : \A i, j \in 1 .. 4 : i # j => o[i] # o[j]}

(***************************************************************************)
(* simulation.py: the agent pass of Simulation.step.  The state threaded   *)
(* through the scan is st = [g, nid, brk]: new_grid, self.next_agent_id,   *)
(* and brk, set when the `break` of the drift branch has left the loop     *)
(* over x for the row being scanned.                                       *)
(***************************************************************************)
\* A target test that reads the prior generation only.
WaterOldOnly(old, g, x, y) ==
    /\ InGrid(x, y)
    /\ old[<<x, y>>].cell_type = WATER

\* old_grid[y][x].cell_type == WATER and new_grid[y][x].cell_type == WATER,
\* behind the bounds test 0 <= x < width and 0 <= y < height.
WaterBoth(old, g, x, y) ==
    /\ InGrid(x, y)
    /\ old[<<x, y>>].cell_type = WATER
    /\ g[<<x, y>>].cell_type = WATER

\* The writes of the death branches: the cell becomes `ty`; species_id,
\* subtype and agent_id become None and nutrient 0.0.  age, temp and
\* spore_age are not written.
Die(c, ty) ==
    [c EXCEPT !.cell_type = ty, !.species_id = None, !.subtype = None,
              !.nutrient = 0, !.agent_id = None]

\* 2a. c_new.age = cell.age + 1
Aged(st, p, cell) ==
    [st EXCEPT !.g[p].age = cell.age + 1]

\* 2a. A root whose cell below (old grid) is not attachable, or that is in
\* the bottom row, loses its substrate.
RootLost(old, x, y, cell, spec) ==
    /\ cell.subtype = SUBTYPE_ROOT
    /\ ~(y + 1 < height /\ can_attach(spec, old[<<x, y + 1>>].cell_type))

\* 2a. Substrate absorption of a root that keeps its substrate.
Absorbed(st, p, cell, spec) ==
    IF cell.subtype = SUBTYPE_ROOT
    THEN [st EXCEPT !.g[p].nutrient = cell.nutrient + spec.substrate_absorb_rate]
    ELSE st

\* light_amt = max(0, (height - 1 - y) * light_absorb_rate * 0.1)
LightAmt(spec, y) == Max(0, ((height - 1 - y) * spec.light_absorb_rate) \div 10)

\* 2a. Light absorption of stems, reproductive cells and coral.
Lit(st, p, cell, spec) ==
    IF cell.subtype \in {SUBTYPE_STEM, SUBTYPE_REPRO}
       \/ cell.species_id = SPECIES_CORAL
    THEN [st EXCEPT !.g[p].nutrient = @ + LightAmt(spec, p[2])]
    ELSE st

\* 2b. c_new.age > spec.max_age or c_new.nutrient < 0.0
MustDie(c, spec) == c.age > spec.max_age \/ c.nutrient < 0

\* 2b. A dead root becomes Sand, any other dead cell Water.
Dead(st, p) ==
    [st EXCEPT !.g[p] =
        Die(st.g[p], IF st.g[p].subtype = SUBTYPE_ROOT THEN SAND ELSE WATER)]

\* 2c. The first of the attempts tries[i ..] that lands on a cell that is
\* Water in both grids, or <<>> when none does.
RECURSIVE FirstSpot(_, _, _, _, _, _)
FirstSpot(old, g, x, y, tries, i) ==
    IF i > Len(tries) THEN <<>>
    ELSE LET rx == x + tries[i][1]
             ry == y + tries[i][2]
         IN  IF WaterBoth(old, g, rx, ry) THEN <<rx, ry>>
             ELSE FirstSpot(old, g, x, y, tries, i + 1)

\* A spawn that hands the spore its parent's id instead of a fresh one.
SpawnedSporeParentId(c, cell, spec, nid) ==
    [c EXCEPT !.cell_type = AGENT, !.species_id = cell.species_id,
              !.subtype = SUBTYPE_SPORE,
              !.nutrient = spec.initial_nutrient \div 2,
              !.age = 0, !.agent_id = cell.agent_id, !.spore_age = 0]

\* The spore written at the spot found.
SpawnedSpore(c, cell, spec, nid) ==
    [c EXCEPT !.cell_type = AGENT, !.species_id = cell.species_id,
              !.subtype = SUBTYPE_SPORE,
              !.nutrient = spec.initial_nutrient \div 2,
              !.age = 0, !.agent_id = nid, !.spore_age = 0]

\* 2c. A successful reproduction draw: the spore, if a spot is found, with
\* a fresh id, and the parent's cost either way.
Reproduced(old, st, p, cell, spec, tries) ==
    LET spot == FirstSpot(old, st.g, p[1], p[2], tries, 1)
        placed == IF spot = <<>> THEN st
                  ELSE [st EXCEPT !.g[spot] = SpawnedSpore(st.g[spot], cell, spec, st.nid),
                                  !.nid = @ + 1]
    IN  [placed EXCEPT !.g[p].nutrient = @ - spec.growth_threshold \div 2]

\* 2c. if random.random() < repro_p: ...
Reproduction(old, st, p, cell, spec) ==
    UNION {IF u < reproduce_chance(spec, st.g[p].age)
           THEN {Reproduced(old, st, p, cell, spec, t) : t \in TrySeqs}
           ELSE {st} : u \in RandomDraws}

\* 2d. The first direction of dirs[i ..] whose cell is Water in both grids.
RECURSIVE FirstDir(_, _, _, _, _, _)
FirstDir(old, g, x, y, dirs, i) ==
    IF i > Len(dirs) THEN <<>>
    ELSE LET nx == x + dirs[i][1]
             ny == y + dirs[i][2]
         IN  IF WaterBoth(old, g, nx, ny) THEN <<nx, ny>>
             ELSE FirstDir(old, g, x, y, dirs, i + 1)

\* below_ty = old_grid[ny + 1][nx].cell_type if ny + 1 < height else WATER
BelowType(g, x, y) == IF y + 1 < height THEN g[<<x, y + 1>>].cell_type ELSE WATER

\* The cell written by growth at (nx, ny).
GrownCell(old, c, cell, spec, nx, ny) ==
    [c EXCEPT !.cell_type = AGENT, !.species_id = cell.species_id,
              !.subtype = IF can_attach(spec, BelowType(old, nx, ny))
                          THEN SUBTYPE_ROOT ELSE SUBTYPE_STEM,
              !.nutrient = spec.initial_nutrient \div 2,
              !.age = 0, !.agent_id = cell.agent_id]

\* 2d. Growth with dirs shuffled into `dirs`.
Grown(old, st, p, cell, spec, dirs) ==
    LET spot == FirstDir(old, st.g, p[1], p[2], dirs, 1)
    IN  IF spot = <<>> THEN st
        ELSE [st EXCEPT
                !.g = [@ EXCEPT
                         ![spot] = GrownCell(old, st.g[spot], cell, spec, spot[1], spot[2]),
                         ![p] = [@ EXCEPT !.nutrient =
                                    @ - (spec.growth_threshold * 7) \div 10]]]

\* 2d. if c_new.nutrient >= spec.growth_threshold: ...
Growth(old, st, p, cell, spec) ==
    IF st.g[p].nutrient >= spec.growth_threshold
    THEN {Grown(old, st, p, cell, spec, o) : o \in ShuffleOrders}
    ELSE {st}

\* 2e. Attach and become a root, with the bonus nutrient.
Attached(st, p, spec) ==
    [st EXCEPT !.g[p] = [@ EXCEPT !.subtype = SUBTYPE_ROOT,
                                  !.nutrient = @ + spec.initial_nutrient]]

\* A drift that writes the spore at the target and leaves the origin as it
\* was.
DriftedCopy(st, p, t, cell) ==
    [st EXCEPT
       !.g = [@ EXCEPT
                ![t] = [@ EXCEPT !.cell_type = AGENT,
                                 !.species_id = cell.species_id,
                                 !.subtype = SUBTYPE_SPORE,
                                 !.nutrient = cell.nutrient,
                                 !.age = cell.age + 1,
                                 !.agent_id = cell.agent_id,
                                 !.spore_age = cell.spore_age + 1]],
       !.brk = TRUE]

\* 2e. Move the spore from p to t, and `break`.
Drifted(st, p, t, cell) ==
    [st EXCEPT
       !.g = [@ EXCEPT
                ![p] = [@ EXCEPT !.cell_type = WATER, !.species_id = None,
                                 !.subtype = None, !.nutrient = 0,
                                 !.agent_id = None, !.spore_age = 0],
                ![t] = [@ EXCEPT !.cell_type = AGENT,
                                 !.species_id = cell.species_id,
                                 !.subtype = SUBTYPE_SPORE,
                                 !.nutrient = cell.nutrient,
                                 !.age = cell.age + 1,
                                 !.agent_id = cell.agent_id,
                                 !.spore_age = cell.spore_age + 1]],
       !.brk = TRUE]

\* 2e. Increment spore_age; the spore dies when it exceeds spore_life.
SporeAged(st, p, cell, spec) ==
    IF cell.spore_age + 1 > spec.spore_life
    THEN [st EXCEPT !.g[p] = [Die(st.g[p], WATER) EXCEPT !.spore_age = 0]]
    ELSE [st EXCEPT !.g[p].spore_age = cell.spore_age + 1]

\* 2e. Spore attachment or drift, then the spore_age bookkeeping.
SporeDynamics(old, st, p, cell, spec, cur) ==
    IF cell.subtype # SUBTYPE_SPORE THEN {st}
    ELSE IF p[2] + 1 >= height THEN {SporeAged(st, p, cell, spec)}
    ELSE IF can_attach(spec, old[<<p[1], p[2] + 1>>].cell_type)
         THEN {SporeAged(Attached(st, p, spec), p, cell, spec)}
    ELSE IF cur.strength > 0
         THEN {IF u < cur.strength
                  /\ WaterBoth(old, st.g, p[1] + cur.dx, p[2] + cur.dy)
               THEN Drifted(st, p, <<p[1] + cur.dx, p[2] + cur.dy>>, cell)
               ELSE SporeAged(st, p, cell, spec) : u \in RandomDraws}
    ELSE {SporeAged(st, p, cell, spec)}

\* The body of the agent loop for the agent cell at p: every state it can
\* leave, over the draws it makes.
ProcessAgent(old, st, p, cur) ==
    LET cell == old[p]
        spec == species_defs[cell.species_id]
        s1 == Aged(st, p, cell)
    IN  IF RootLost(old, p[1], p[2], cell, spec)
        THEN {[s1 EXCEPT !.g[p] = Die(s1.g[p], WATER)]}
        ELSE LET s2 == Lit(Absorbed(s1, p, cell, spec), p, cell, spec)
             IN  IF MustDie(s2.g[p], spec) THEN {Dead(s2, p)}
                 ELSE UNION {UNION {SporeDynamics(old, s4, p, cell, spec, cur) :
                                      s4 \in Growth(old, s3, p, cell, spec)} :
                               s3 \in Reproduction(old, s2, p, cell, spec)}

\* One iteration of `for x in range(self.width)` in row y: nothing once the
\* loop over x has been left, `continue` on a cell that is no agent.
VisitCell(old, st, p, cur) ==
    IF st.brk \/ ~is_agent(old[p]) THEN {st} ELSE ProcessAgent(old, st, p, cur)

\* for y in range(self.height): for x in range(self.width); a new row
\* starts a new loop over x.
RECURSIVE AgentPass(_, _, _, _)
AgentPass(old, S, i, cur) ==
    IF i >= width * height THEN S
    ELSE LET p == <<i % width, i \div width>>
         IN  AgentPass(old,
                       UNION {VisitCell(old,
                                        [s EXCEPT !.brk = (p[1] # 0) /\ @],
                                        p, cur) : s \in S},
                       i + 1, cur)

\* 4. pop_cells and pop_inds_count, tallied from the grid swapped in.
PopCells(g) ==
    [sid \in SPECIES_NAMES |->
       Cardinality({p \in Pos : is_agent(g[p]) /\ g[p].species_id = sid})]

\* A tally of individuals that counts cells, not distinct ids.
PopIndsPerCell(g) ==
    [sid \in SPECIES_NAMES |->
       Cardinality({p \in Pos : is_agent(g[p]) /\ g[p].species_id = sid})]

PopInds(g) ==
    [sid \in SPECIES_NAMES |->
       Cardinality({g[p].agent_id :
                      p \in {q \in Pos : is_agent(g[q]) /\ g[q].species_id = sid}})]

\* Steps 1 and 2 of Simulation.step: every (new_grid, next_agent_id) the
\* step can end with.
StepOutcomes(old, nid, cur) ==
    AgentPass(old,
              {[g |-> update_environment(old, old), nid |-> nid, brk |-> FALSE]},
              0, cur)

(***************************************************************************)
(* The engine: Simulation's attributes.  `calls` counts the mutator calls  *)
(* made so far (it bounds the model) and `last` records the last call, its *)
(* arguments and what it returned.                                         *)
(***************************************************************************)
VARIABLES grid, next_agent_id, current, time_step, cell_counts, indiv_counts,
          calls, last

vars == <<width, height, grid, next_agent_id, current, time_step,
          cell_counts, indiv_counts, calls, last>>

\* Simulation.__init__: all Water, the bottom row Rock.
InitGrid ==
    [p \in Pos |-> NewCell(IF p[2] = height - 1 THEN ROCK ELSE WATER)]

Init ==
    /\ width = Width
    /\ height = Height
    /\ grid = InitGrid
    /\ next_agent_id = 1
    /\ current = [dx |-> 0, dy |-> 0, strength |-> 0]
    /\ time_step = 0
    /\ cell_counts = <<>>
    /\ indiv_counts = <<>>
    /\ calls = 0
    /\ last = [op |-> "init", args |-> <<>>, ret |-> None]

\* The root and the stem plant_seed writes.
SeedRoot(c, sp, nid) ==
    [c EXCEPT !.cell_type = AGENT, !.species_id = sp, !.subtype = SUBTYPE_ROOT,
              !.nutrient = species_defs[sp].initial_nutrient,
              !.age = 0, !.agent_id = nid]

SeedStem(c, sp, nid) ==
    [c EXCEPT !.cell_type = AGENT, !.species_id = sp, !.subtype = SUBTYPE_STEM,
              !.nutrient = species_defs[sp].initial_nutrient \div 2,
              !.age = 0, !.agent_id = nid]

\* A plant_seed that writes the stem without testing for Water above.
PlantedOverAnything(g, x, y, sp, nid) ==
    [p \in Pos |->
       IF p = <<x, y>> THEN SeedRoot(g[p], sp, nid)
       ELSE IF p = <<x, y - 1>> THEN SeedStem(g[p], sp, nid)
       ELSE g[p]]

\* The grid plant_seed leaves when the species can attach below (x, y).
Planted(g, x, y, sp, nid) ==
    [p \in Pos |->
       IF p = <<x, y>> THEN SeedRoot(g[p], sp, nid)
       ELSE IF p = <<x, y - 1>> /\ g[p].cell_type = WATER
            THEN SeedStem(g[p], sp, nid)
       ELSE g[p]]

\* A plant_seed that takes an id from the allocator before it tests the
\* substrate.
plant_seed_id_first(x, y, sp) ==
    /\ calls' = calls + 1
    /\ next_agent_id' = next_agent_id + 1
    /\ IF can_attach(species_defs[sp], BelowType(grid, x, y))
       THEN /\ grid' = Planted(grid, x, y, sp, next_agent_id)
            /\ last' = [op |-> "plant_seed", args |-> <<x, y, sp>>, ret |-> TRUE]
       ELSE /\ UNCHANGED grid
            /\ last' = [op |-> "plant_seed", args |-> <<x, y, sp>>, ret |-> FALSE]
    /\ UNCHANGED <<width, height, current, time_step, cell_counts, indiv_counts>>

\* A plant_seed that writes the allocator's value and leaves the allocator
\* where it was.
plant_seed_same_id(x, y, sp) ==
    /\ calls' = calls + 1
    /\ IF can_attach(species_defs[sp], BelowType(grid, x, y))
       THEN /\ grid' = Planted(grid, x, y, sp, next_agent_id)
            /\ last' = [op |-> "plant_seed", args |-> <<x, y, sp>>, ret |-> TRUE]
       ELSE /\ UNCHANGED grid
            /\ last' = [op |-> "plant_seed", args |-> <<x, y, sp>>, ret |-> FALSE]
    /\ UNCHANGED <<width, height, next_agent_id, current, time_step, cell_counts, indiv_counts>>

\* Simulation.plant_seed(x, y, species_id)
plant_seed(x, y, sp) ==
    /\ calls' = calls + 1
    /\ IF can_attach(species_defs[sp], BelowType(grid, x, y))
       THEN /\ grid' = Planted(grid, x, y, sp, next_agent_id)
            /\ next_agent_id' = next_agent_id + 1
            /\ last' = [op |-> "plant_seed", args |-> <<x, y, sp>>, ret |-> TRUE]
       ELSE /\ UNCHANGED <<grid, next_agent_id>>
            /\ last' = [op |-> "plant_seed", args |-> <<x, y, sp>>, ret |-> FALSE]
    /\ UNCHANGED <<width, height, current, time_step, cell_counts, indiv_counts>>

\* Simulation.set_current(dx, dy, strength); strength in thousandths.
set_current(dx, dy, strength) ==
    /\ calls' = calls + 1
    /\ current' = [dx |-> dx, dy |-> dy, strength |-> strength]
    /\ last' = [op |-> "set_current", args |-> <<dx, dy, strength>>, ret |-> None]
    /\ UNCHANGED <<width, height, grid, next_agent_id, time_step, cell_counts, indiv_counts>>

\* The cell an eruption overwrites: spore_age is not written.
LavaHit(c) ==
    [c EXCEPT !.cell_type = LAVA, !.temp = 100, !.species_id = None,
              !.subtype = None, !.nutrient = 0, !.age = 0, !.agent_id = None]

\* for _ in range(intensity): the i-th pair of randint(-radius, radius) is
\* draws[i]; a pair that lands outside the grid writes nothing.
RECURSIVE Erupted(_, _, _, _, _)
Erupted(g, x, y, draws, i) ==
    IF i > Len(draws) THEN g
    ELSE LET nx == x + draws[i][1]
             ny == y + draws[i][2]
         IN  Erupted(IF InGrid(nx, ny)
                     THEN [g EXCEPT ![<<nx, ny>>] = LavaHit(g[<<nx, ny>>])]
                     ELSE g,
                     x, y, draws, i + 1)

\* Simulation.erupt_volcano(x, y, intensity, radius)
erupt_volcano(x, y, intensity, radius) ==
    /\ calls' = calls + 1
    /\ \E draws \in [1 .. intensity -> (-radius .. radius) \X (-radius .. radius)] :
          grid' = Erupted(grid, x, y, draws, 1)
    /\ last' = [op |-> "erupt_volcano", args |-> <<x, y, intensity, radius>>,
                ret |-> None]
    /\ UNCHANGED <<width, height, next_agent_id, current, time_step, cell_counts, indiv_counts>>

\* A paint_area that takes the corners as given, without ordering them.
PaintedAsGiven(g, x1, y1, x2, y2, new_type) ==
    [p \in Pos |->
       IF x1 <= p[1] /\ p[1] <= x2 /\ y1 <= p[2] /\ p[2] <= y2
       THEN [cell_type |-> new_type, species_id |-> None, subtype |-> None,
             nutrient |-> 0, age |-> 0, agent_id |-> None, temp |-> None,
             spore_age |-> 0]
       ELSE g[p]]

\* The grid paint_area leaves: the clamped, ordered rectangle overwritten.
Painted(g, x1, y1, x2, y2, new_type) ==
    LET x1c == Max(0, Min(x1, x2))
        x2c == Min(width - 1, Max(x1, x2))
        y1c == Max(0, Min(y1, y2))
        y2c == Min(height - 1, Max(y1, y2))
    IN  [p \in Pos |->
           IF x1c <= p[1] /\ p[1] <= x2c /\ y1c <= p[2] /\ p[2] <= y2c
           THEN [cell_type |-> new_type, species_id |-> None, subtype |-> None,
                 nutrient |-> 0, age |-> 0, agent_id |-> None, temp |-> None,
                 spore_age |-> 0]
           ELSE g[p]]

\* Simulation.paint_area(x1, y1, x2, y2, new_type)
paint_area(x1, y1, x2, y2, new_type) ==
    /\ calls' = calls + 1
    /\ grid' = Painted(grid, x1, y1, x2, y2, new_type)
    /\ last' = [op |-> "paint_area", args |-> <<x1, y1, x2, y2, new_type>>,
                ret |-> None]
    /\ UNCHANGED <<width, height, next_agent_id, current, time_step, cell_counts, indiv_counts>>

\* A step that appends the cell counts but not the individual counts.
step_one_history ==
    /\ \E out \in StepOutcomes(grid, next_agent_id, current) :
          /\ grid' = out.g
          /\ next_agent_id' = out.nid
          /\ cell_counts' = Append(cell_counts, PopCells(out.g))
    /\ time_step' = time_step + 1
    /\ last' = [op |-> "step", args |-> <<>>, ret |-> None]
    /\ UNCHANGED <<width, height, current, calls, indiv_counts>>

\* Simulation.step()
step ==
    /\ \E out \in StepOutcomes(grid, next_agent_id, current) :
          /\ grid' = out.g
          /\ next_agent_id' = out.nid
          /\ cell_counts' = Append(cell_counts, PopCells(out.g))
          /\ indiv_counts' = Append(indiv_counts, PopInds(out.g))
    /\ time_step' = time_step + 1
    /\ last' = [op |-> "step", args |-> <<>>, ret |-> None]
    /\ UNCHANGED <<width, height, current, calls>>

\* None where a dict of counts is expected: the empty function, which can be
\* compared with a dict.
NoCounts == <<>>

\* Simulation.get_latest_counts(): (None, None) before the first step.
get_latest_counts ==
    IF cell_counts = <<>> THEN <<NoCounts, NoCounts>>
    ELSE <<cell_counts[Len(cell_counts)], indiv_counts[Len(indiv_counts)]>>

(***************************************************************************)
(* The specification: the engine as constructed, driven by any sequence of *)
(* at most MaxCalls mutator calls and MaxSteps steps, with arguments from  *)
(* the sets below.                                                         *)
(***************************************************************************)
\* paint_area's new_type: one of {WATER, SAND, ROCK, CORAL_ROCK}.
PaintTypes == {WATER, SAND, ROCK, CORAL_ROCK}

\* Current strengths: none, 0.5 and 1.0.
Strengths == {0, 500, 1000}

\* Eruptions: <<intensity, radius>>.
EruptSizes == {<<1, 1>>, <<2, 0>>}

PlantSeed ==
    /\ calls < MaxCalls
    /\ \E p \in Pos, sp \in SPECIES_NAMES : plant_seed(p[1], p[2], sp)

SetCurrent ==
    /\ calls < MaxCalls
    /\ \E dx \in {-1, 0, 1}, dy \in {-1, 0, 1}, s \in Strengths :
          set_current(dx, dy, s)

EruptVolcano ==
    /\ calls < MaxCalls
    /\ \E p \in Pos, sz \in EruptSizes : erupt_volcano(p[1], p[2], sz[1], sz[2])

\* Rectangles one cell high and one or two cells wide, the second corner
\* given left of the first and possibly outside the grid.
PaintArea ==
    /\ calls < MaxCalls
    /\ \E p \in Pos, w \in {0, 1}, t \in PaintTypes :
          paint_area(p[1], p[2], p[1] - w, p[2], t)

Step ==
    /\ time_step < MaxSteps
    /\ step

Next == PlantSeed \/ SetCurrent \/ EruptVolcano \/ PaintArea \/ Step

Spec == Init /\ [][Next]_vars

(***************************************************************************)
(* The lava specification: the engine as constructed, one-cell eruptions   *)
(* at the centre, single cells painted Water, and up to MaxLavaSteps       *)
(* steps, which is long enough for erupted lava to cool to Rock.           *)
(***************************************************************************)
MaxLavaSteps == 20

LavaErupt ==
    /\ calls < MaxCalls
    /\ erupt_volcano(1, 1, 1, 0)

LavaPaint ==
    /\ calls < MaxCalls
    /\ \E p \in Pos : paint_area(p[1], p[2], p[1], p[2], WATER)

LavaStep ==
    /\ time_step < MaxLavaSteps
    /\ step

NextLava == LavaErupt \/ LavaPaint \/ LavaStep

SpecLava == Init /\ [][NextLava]_vars

(***************************************************************************)
(* The life-cycle specification: the engine as constructed, seaweed seeds  *)
(* planted on the rock floor, currents, and up to MaxLifeSteps steps,      *)
(* which is long enough for a seed to grow and to reproduce.               *)
(***************************************************************************)
MaxLifeSteps == 9

LifePlant ==
    /\ calls < MaxCalls
    /\ \E x \in 0 .. width - 1 : plant_seed(x, height - 2, SPECIES_SEAWEED)

LifeCurrent ==
    /\ calls < MaxCalls
    /\ \E dx \in {-1, 1} : set_current(dx, 0, 1000)

LifeStep ==
    /\ time_step < MaxLifeSteps
    /\ step

NextLife == LifePlant \/ LifeCurrent \/ LifeStep

SpecLife == Init /\ [][NextLife]_vars

(***************************************************************************)
(* The spore specification: the engine as constructed and a caller that    *)
(* follows a script, as main.py schedules its calls by step number.  The   *)
(* caller paints the leftmost cell above the floor Sand, plants a seaweed  *)
(* seed at the right end of the same row, steps until the seed is old      *)
(* enough to have reproduced, paints the block holding the plant back to   *)
(* Water, which leaves at most spores in the left column, above sand they  *)
(* cannot attach to, and from then on steps and may set the current once,  *)
(* up to MaxSporeSteps steps: long enough for a spore to reach the end of  *)
(* its life.                                                               *)
(***************************************************************************)
MaxSporeSteps == 24

\* The step after which the caller clears the plant: the seaweed's
\* repro_age, the first step at which the seed can reproduce.
SporeClearStep == species_defs[SPECIES_SEAWEED].repro_age

SporePrepare ==
    /\ calls = 0
    /\ paint_area(0, height - 2, 0, height - 2, SAND)

SporePlant ==
    /\ calls = 1
    /\ plant_seed(width - 1, height - 2, SPECIES_SEAWEED)

SporeClear ==
    /\ calls = 2
    /\ time_step = SporeClearStep
    /\ paint_area(1, 0, width - 1, height - 2, WATER)

\* Horizontal currents at strength 0.5 or 1.0: the spore stays in the top
\* row, where nothing below it is a substrate.
SporeCurrent ==
    /\ calls = 3
    /\ \E dx \in {-1, 1}, s \in Strengths \ {0} : set_current(dx, 0, s)

SporeStep ==
    /\ \/ calls = 2 /\ time_step < SporeClearStep
       \/ calls >= 3
    /\ time_step < MaxSporeSteps
    /\ step

NextSpore == SporePrepare \/ SporePlant \/ SporeClear \/ SporeCurrent \/ SporeStep

SpecSpore == Init /\ [][NextSpore]_vars

(***************************************************************************)
(* The paint specification: the engine as constructed, seeds and           *)
(* eruptions that put agents and lava in the grid, steps, and as the last  *)
(* mutator call a paint_area whose corners are each left of or above the   *)
(* grid, inside it, or right of or below it, in either order.              *)
(***************************************************************************)
\* Corner coordinates along an axis of length n: before, inside, after.
PaintCoords(n) == {-1, 1, n}

PaintPlant ==
    /\ calls < MaxCalls - 1
    /\ \E x \in 0 .. width - 1, sp \in {SPECIES_SEAWEED, SPECIES_KELP} :
          plant_seed(x, height - 2, sp)

PaintErupt ==
    /\ calls < MaxCalls - 1
    /\ \E p \in Pos : erupt_volcano(p[1], p[2], 1, 1)

PaintAny ==
    /\ calls = MaxCalls - 1
    /\ \E x1 \in PaintCoords(width), x2 \in PaintCoords(width),
          y1 \in PaintCoords(height), y2 \in PaintCoords(height),
          t \in PaintTypes :
          paint_area(x1, y1, x2, y2, t)

PaintStep ==
    /\ time_step < MaxSteps
    /\ step

NextPaint == PaintPlant \/ PaintErupt \/ PaintAny \/ PaintStep

SpecPaint == Init /\ [][NextPaint]_vars

(***************************************************************************)
(* The eruption specification: the engine as constructed and a caller that *)
(* plants a seaweed seed on the rock floor, steps until the seed is old    *)
(* enough to have reproduced, and then may erupt once, over a grid that    *)
(* holds roots, stems and spores of several ages, up to MaxEruptSteps      *)
(* steps.                                                                  *)
(***************************************************************************)
MaxEruptSteps == 10

EruptPlant ==
    /\ calls = 0
    /\ plant_seed(width - 1, height - 2, SPECIES_SEAWEED)

\* One draw around any cell, or two draws around the centre.
EruptOnce ==
    /\ calls = 1
    /\ time_step >= SporeClearStep
    /\ \/ \E p \in Pos : erupt_volcano(p[1], p[2], 1, 1)
       \/ erupt_volcano(1, 1, 2, 1)

EruptStep ==
    /\ calls >= 1
    /\ time_step < MaxEruptSteps
    /\ step

NextErupt == EruptPlant \/ EruptOnce \/ EruptStep

SpecErupt == Init /\ [][NextErupt]_vars

(***************************************************************************)
(* Properties.                                                             *)
(***************************************************************************)
Mutators == {"plant_seed", "set_current", "erupt_volcano", "paint_area"}

\* A cell of exactly one kind: an environment cell with every agent field
\* at its unset default, or an agent cell with no temperature.
KindOK(c) ==
    \/ /\ is_environment(c)
       /\ c.species_id = None /\ c.subtype = None /\ c.nutrient = 0
       /\ c.age = 0 /\ c.agent_id = None /\ c.spore_age = 0
    \/ /\ is_agent(c)
       /\ c.temp = None

\* C1: conservation of kind.  After every step() every cell of the grid is
\* an environment cell whose agent fields are all unset, or an agent cell
\* without a temperature.
C1_ConservationOfKind ==
    last.op = "step" => \A p \in Pos : KindOK(grid[p])

EnvNoLava(g) == \A p \in Pos : g[p].cell_type \in {WATER, SAND, ROCK, CORAL_ROCK}

SandCount(g) == Cardinality({p \in Pos : g[p].cell_type = SAND})

\* C2: sand mass conservation.  A step() of a grid holding only Water, Sand,
\* Rock and CoralRock leaves the number of Sand cells unchanged.
C2_SandConserved ==
    [][(last'.op = "step" /\ EnvNoLava(grid))
          => SandCount(grid') = SandCount(grid)]_vars

\* The species cannot attach below (x, y): there is no row below, or the
\* cell below is not one of its substrates.
CannotAttachBelow(g, x, y, sp) ==
    \/ y + 1 >= height
    \/ g[<<x, y + 1>>].cell_type \notin species_defs[sp].allowed_substrates

\* C7: a plantSeed whose species cannot attach below (x, y), the bottom row
\* included, returns failure and changes nothing of the engine.
C7_PlantSeedFailureNoOp ==
    [][(/\ last'.op = "plant_seed"
        /\ CannotAttachBelow(grid, last'.args[1], last'.args[2], last'.args[3]))
          => /\ last'.ret = FALSE
             /\ UNCHANGED <<grid, next_agent_id, current, time_step,
                            cell_counts, indiv_counts>>]_vars

C7_Witness ==
    /\ last.op = "plant_seed"
    /\ last.ret = FALSE
    /\ last.args[2] = height - 1
    /\ last.args[3] = SPECIES_KELP

\* The effect of a successful plantSeed(x, y, sp) from grid g with the
\* allocator at nid, on grid h.
SeedEffect(g, h, x, y, sp, nid) ==
    /\ is_agent(h[<<x, y>>])
    /\ h[<<x, y>>].species_id = sp
    /\ h[<<x, y>>].subtype = SUBTYPE_ROOT
    /\ h[<<x, y>>].agent_id = nid
    /\ \A p \in Pos \ {<<x, y>>} :
         IF p = <<x, y - 1>> /\ g[p].cell_type = WATER
         THEN /\ is_agent(h[p])
              /\ h[p].species_id = sp
              /\ h[p].subtype = SUBTYPE_STEM
              /\ h[p].agent_id = nid
         ELSE h[p] = g[p]

\* C8: a plantSeed whose species can attach below (x, y) returns success,
\* makes (x, y) a Root of that species with the allocator's value as id,
\* makes (x, y-1) a Stem with the same id exactly when it is in the grid and
\* was Water, advances the allocator by one and leaves every other cell and
\* the step counter unchanged.
C8_PlantSeedSuccess ==
    [][(/\ last'.op = "plant_seed"
        /\ ~CannotAttachBelow(grid, last'.args[1], last'.args[2], last'.args[3]))
          => /\ last'.ret = TRUE
             /\ SeedEffect(grid, grid', last'.args[1], last'.args[2],
                           last'.args[3], next_agent_id)
             /\ next_agent_id' = next_agent_id + 1
             /\ time_step' = time_step]_vars

\* A seed planted on a cell whose upper neighbour is not Water: the root is
\* there and the neighbour is no part of the new organism.
C8_Witness ==
    /\ last.op = "plant_seed"
    /\ last.ret = TRUE
    /\ last.args[2] >= 1
    /\ grid[<<last.args[1], last.args[2]>>].subtype = SUBTYPE_ROOT
    /\ grid[<<last.args[1], last.args[2] - 1>>].cell_type = SAND

\* The number of agent cells of species sid, and of distinct organism ids
\* among them.
CellsOf(g, sid) == {p \in Pos : g[p].cell_type = AGENT /\ g[p].species_id = sid}

IdsOf(g, sid) == {id \in 1 .. next_agent_id : \E p \in CellsOf(g, sid) : g[p].agent_id = id}

\* C9: right after a step(), latestCounts() gives for each species the
\* number of its agent cells in the current grid and the number of distinct
\* organism ids among them.
C9_PopulationSnapshot ==
    last.op = "step" =>
        /\ get_latest_counts[1] =
              [sid \in SPECIES_NAMES |-> Cardinality(CellsOf(grid, sid))]
        /\ get_latest_counts[2] =
              [sid \in SPECIES_NAMES |-> Cardinality(IdsOf(grid, sid))]

\* The spec's scenario: a kelp seed (root and stem) one step after planting
\* is 2 cells and 1 organism.
C9_Witness ==
    /\ last.op = "step"
    /\ time_step = 1
    /\ get_latest_counts[1][SPECIES_KELP] = 2
    /\ get_latest_counts[2][SPECIES_KELP] = 1

\* C10: only step() advances time.  Mutators leave the step counter and the
\* histories alone; a step adds one to the counter and appends one snapshot
\* to each history; so each history is as long as the counter, and
\* latestCounts() is absent exactly when the counter is 0.
C10_StepSoleTimeAdvance ==
    /\ [](/\ Len(cell_counts) = time_step
          /\ Len(indiv_counts) = time_step
          /\ (get_latest_counts = <<NoCounts, NoCounts>>) <=> (time_step = 0))
    /\ [][/\ last'.op \in Mutators =>
               UNCHANGED <<time_step, cell_counts, indiv_counts>>
          /\ last'.op = "step" =>
               /\ time_step' = time_step + 1
               /\ Len(cell_counts') = Len(cell_counts) + 1
               /\ SubSeq(cell_counts', 1, Len(cell_counts)) = cell_counts
               /\ Len(indiv_counts') = Len(indiv_counts) + 1
               /\ SubSeq(indiv_counts', 1, Len(indiv_counts)) = indiv_counts]_vars

\* A mutator call made after a step: the counter and histories stand at 1.
C10_Witness ==
    /\ last.op \in Mutators
    /\ time_step = 1
    /\ Len(cell_counts) = 1
    /\ get_latest_counts # <<NoCounts, NoCounts>>

\* Every Lava cell has its temperature unset or in 1 .. 100.
LavaTempsInRange(g) ==
    \A p \in Pos : g[p].cell_type = LAVA =>
        (g[p].temp = None \/ g[p].temp \in 1 .. 100)

\* C3: no lava at rest with a non-positive temperature.  A step() of a grid
\* whose Lava cells have a temperature unset or in 1 .. 100 produces a grid
\* where every Lava cell, those created by spreading in that step included,
\* has a temperature above 0.
C3_LavaTempPositive ==
    [][(last'.op = "step" /\ LavaTempsInRange(grid))
          => \A p \in Pos : grid'[p].cell_type = LAVA =>
                (grid'[p].temp # None /\ grid'[p].temp > 0)]_vars

\* C4: spore lifetime bound.  In every grid a step() produces, no Spore
\* cell has a sporeAge above its species' spore_life, whether the spore
\* stayed, attached or drifted in that step.
C4_SporeLifetimeBound ==
    last.op = "step" =>
        \A p \in Pos :
            (is_agent(grid[p]) /\ grid[p].subtype = SUBTYPE_SPORE) =>
                grid[p].spore_age <= species_defs[grid[p].species_id].spore_life

\* The cells a step turns from environment cells into new spores (a spore
\* that drifted in has an age of 1 or more), and into any other agent.
NewSpores(g, h) ==
    {p \in Pos : /\ ~is_agent(g[p]) /\ is_agent(h[p])
                 /\ h[p].subtype = SUBTYPE_SPORE /\ h[p].age = 0}

NewGrowth(g, h) ==
    {p \in Pos : /\ ~is_agent(g[p]) /\ is_agent(h[p])
                 /\ h[p].subtype # SUBTYPE_SPORE}

\* C5: fresh organism ids.  The allocator never decreases and every id in
\* the grid is below it.  A successful plantSeed writes the allocator's
\* value and advances it by one, a failed one and every other mutator leave
\* it alone.  A step advances it by the number of spores it spawns, whose
\* ids are exactly the values it passed over; a cell made by growth carries
\* an id allocated before the step.
C5_FreshIds ==
    /\ [](\A p \in Pos : is_agent(grid[p]) => grid[p].agent_id < next_agent_id)
    /\ [][/\ next_agent_id' >= next_agent_id
          /\ last'.op = "plant_seed" =>
               IF last'.ret
               THEN /\ next_agent_id' = next_agent_id + 1
                    /\ grid'[<<last'.args[1], last'.args[2]>>].agent_id
                          = next_agent_id
               ELSE next_agent_id' = next_agent_id
          /\ last'.op \in Mutators \ {"plant_seed"} =>
               next_agent_id' = next_agent_id
          /\ last'.op = "step" =>
               /\ next_agent_id' =
                     next_agent_id + Cardinality(NewSpores(grid, grid'))
               /\ {grid'[p].agent_id : p \in NewSpores(grid, grid')}
                     = next_agent_id .. next_agent_id' - 1
               /\ \A p \in NewGrowth(grid, grid') :
                     grid'[p].agent_id < next_agent_id]_vars

\* A step has just spawned a spore, which holds the last id allocated, in a
\* grid where growth has made a third cell of the seed's organism.
C5_Witness ==
    /\ last.op = "step"
    /\ \E p \in Pos : /\ is_agent(grid[p])
                      /\ grid[p].subtype = SUBTYPE_SPORE
                      /\ grid[p].age = 0
                      /\ grid[p].agent_id = next_agent_id - 1
    /\ Cardinality({p \in Pos : is_agent(grid[p]) /\ grid[p].agent_id = 1}) >= 3

\* The inclusive, ordered rectangle with corners (x1, y1) and (x2, y2).
InRect(p, x1, y1, x2, y2) ==
    /\ Min(x1, x2) <= p[1] /\ p[1] <= Max(x1, x2)
    /\ Min(y1, y2) <= p[2] /\ p[2] <= Max(y1, y2)

\* C11: paintArea effect and frame.  For corners in any order, in or out of
\* the grid, every grid cell inside the ordered rectangle becomes an
\* environment cell of the given substance with every other field cleared,
\* every cell outside it is unchanged, a rectangle with no cell in the grid
\* changes nothing, and the allocator, current and step counter are
\* unchanged.
C11_PaintAreaEffect ==
    [][last'.op = "paint_area" =>
         LET a == last'.args
         IN  /\ \A p \in Pos :
                  grid'[p] = IF InRect(p, a[1], a[2], a[3], a[4])
                             THEN NewCell(a[5]) ELSE grid[p]
             /\ (\A p \in Pos : ~InRect(p, a[1], a[2], a[3], a[4]))
                   => grid' = grid
             /\ UNCHANGED <<next_agent_id, current, time_step>>]_vars

\* A paint after a step, given with its first corner right of the grid and
\* its second corner left of it, that has painted cells of the grid.
C11_Witness ==
    /\ last.op = "paint_area"
    /\ time_step >= 1
    /\ last.args[1] = width /\ last.args[3] = -1
    /\ last.args[2] = 1 /\ last.args[4] = 1
    /\ last.args[5] = SAND
    /\ \A x \in 0 .. width - 1 : grid[<<x, 1>>] = NewCell(SAND)

\* The cells in which grids g and h differ.
Changed(g, h) == {p \in Pos : g[p] # h[p]}

\* C12: eruptVolcano effect.  Every cell an eruption changes lies within
\* the square of half-width radius around (x, y) and ends as Lava at
\* temperature 100 with species, subtype, nutrient, age, organism id and
\* sporeAge cleared, whatever it held; at most intensity cells change.
C12_EruptVolcanoEffect ==
    [][last'.op = "erupt_volcano" =>
         LET a == last'.args
         IN  /\ \A p \in Changed(grid, grid') :
                  /\ a[1] - a[4] <= p[1] /\ p[1] <= a[1] + a[4]
                  /\ a[2] - a[4] <= p[2] /\ p[2] <= a[2] + a[4]
                  /\ grid'[p] = [NewCell(LAVA) EXCEPT !.temp = 100]
             /\ Cardinality(Changed(grid, grid')) <= a[3]]_vars

(***************************************************************************)
(* The mixed specification: a seaweed seed planted on the rock floor, then *)
(* at any time one call that sets a current, erupts one cell or paints one *)
(* cell Sand, and up to MaxMixSteps steps: agents that grow, spawn and      *)
(* drift next to falling sand and spreading lava.                          *)
(***************************************************************************)
MaxMixSteps == 9

MixPlant ==
    /\ calls = 0
    /\ \E x \in 0 .. width - 1 : plant_seed(x, height - 2, SPECIES_SEAWEED)

MixCurrent ==
    /\ calls = 1
    /\ \E dx \in {-1, 1} : set_current(dx, 0, 1000)

MixErupt ==
    /\ calls = 1
    /\ \E p \in Pos : erupt_volcano(p[1], p[2], 1, 0)

MixPaint ==
    /\ calls = 1
    /\ \E p \in Pos : paint_area(p[1], p[2], p[1], p[2], SAND)

MixStep ==
    /\ calls >= 1
    /\ time_step < MaxMixSteps
    /\ step

NextMix == MixPlant \/ MixCurrent \/ MixErupt \/ MixPaint \/ MixStep

SpecMix == Init /\ [][NextMix]_vars

(***************************************************************************)
(* The substrate specification: a caller that plants a seaweed seed at the *)
(* right end of the floor and sets a current to the left, then steps, and  *)
(* at some time paints the column left of the seed Water, floor included,  *)
(* and later a stretch of the floor that reaches under the seed, up to     *)
(* MaxLossSteps steps: roots and spores over a floor that is taken away.   *)
(***************************************************************************)
MaxLossSteps == 10

LossPlant ==
    /\ calls = 0
    /\ plant_seed(width - 1, height - 2, SPECIES_SEAWEED)

LossCurrent ==
    /\ calls = 1
    /\ \E s \in Strengths \ {0} : set_current(-1, 0, s)

LossClear ==
    /\ calls = 2
    /\ paint_area(width - 2, height - 2, width - 2, height - 1, WATER)

LossFloor ==
    /\ calls = 3
    /\ \E x1 \in 0 .. width - 1 :
          paint_area(x1, height - 1, width - 1, height - 1, WATER)

LossStep ==
    /\ calls >= 2
    /\ time_step < MaxLossSteps
    /\ step

NextLoss == LossPlant \/ LossCurrent \/ LossClear \/ LossFloor \/ LossStep

SpecLoss == Init /\ [][NextLoss]_vars

\* Cell q is in grid g and Water.
IsWater(g, q) == q \in Pos /\ g[q].cell_type = WATER

\* The destination of the Sand cell p of grid g: below, else down-left,
\* else down-right, the first that is Water in g; p itself when none is.
SandDest(g, p) ==
    IF IsWater(g, <<p[1], p[2] + 1>>) THEN <<p[1], p[2] + 1>>
    ELSE IF IsWater(g, <<p[1] - 1, p[2] + 1>>) THEN <<p[1] - 1, p[2] + 1>>
    ELSE IF IsWater(g, <<p[1] + 1, p[2] + 1>>) THEN <<p[1] + 1, p[2] + 1>>
    ELSE p

\* The Sand cells of g that move.
MovingSand(g) == {p \in Pos : g[p].cell_type = SAND /\ SandDest(g, p) # p}

\* Every cell that is Water in g and Sand in h is the destination of a Sand
\* cell of g in the row above it.
SandFromAbove(g, h) ==
    \A q \in Pos : (g[q].cell_type = WATER /\ h[q].cell_type = SAND) =>
        \E p \in MovingSand(g) : SandDest(g, p) = q /\ p[2] = q[2] - 1

\* C13, as stated: in a step every Sand cell of the prior grid stays when
\* it has no destination, else its origin becomes Water and its destination
\* Sand; sand appears only one row below a sand that moved there.
C13_SandMoveRule ==
    [][last'.op = "step" =>
         /\ \A p \in Pos : grid[p].cell_type = SAND =>
               IF SandDest(grid, p) = p
               THEN grid'[p].cell_type = SAND
               ELSE /\ grid'[p].cell_type = WATER
                    /\ grid'[SandDest(grid, p)].cell_type = SAND
         /\ SandFromAbove(grid, grid')]_vars

\* Cell q has an orthogonal neighbour that is Lava in g and stays Lava when
\* it cools by 5: that neighbour spreads onto q if q is Water in g.
LavaReaches(g, q) ==
    \E n \in Pos :
        /\ (n[1] - q[1]) * (n[1] - q[1]) + (n[2] - q[2]) * (n[2] - q[2]) = 1
        /\ g[n].cell_type = LAVA
        /\ (g[n].temp = None \/ g[n].temp > 5)

\* C13, amended: as stated, except that a destination which lava spreads
\* onto in the same step ends as Lava, not Sand.
C13_SandMoveRuleUnlessLava ==
    [][last'.op = "step" =>
         /\ \A p \in Pos : grid[p].cell_type = SAND =>
               IF SandDest(grid, p) = p
               THEN grid'[p].cell_type = SAND
               ELSE /\ grid'[p].cell_type = WATER
                    /\ grid'[SandDest(grid, p)].cell_type =
                          IF LavaReaches(grid, SandDest(grid, p))
                          THEN LAVA ELSE SAND
         /\ SandFromAbove(grid, grid')]_vars

\* After one step: sand in the floor row next to a floor cell that is Water,
\* with Water above both, as left by a sand that fell or slipped into a
\* floor cell painted Water.
C13_Witness ==
    /\ last.op = "step"
    /\ time_step = 1
    /\ grid[<<0, height - 1>>].cell_type = SAND
    /\ grid[<<1, height - 1>>].cell_type = ROCK
    /\ grid[<<0, height - 2>>].cell_type = WATER
    /\ grid[<<1, height - 2>>].cell_type = WATER
    /\ grid[<<0, height - 1>>].temp = None

\* The temperature T of a Lava cell: 100 if unset.
LavaT(c) == IF c.temp = None THEN 100 ELSE c.temp

\* The orthogonal neighbours of q that are Lava in g and stay Lava.
LavaSources(g, q) ==
    {n \in Pos : /\ (n[1] = q[1] /\ (n[2] = q[2] - 1 \/ n[2] = q[2] + 1))
                    \/ (n[2] = q[2] /\ (n[1] = q[1] - 1 \/ n[1] = q[1] + 1))
                 /\ g[n].cell_type = LAVA
                 /\ LavaT(g[n]) - 5 > 0}

\* The cell of S that a scan by rows, left to right in each row, meets last.
LastScanned(S) ==
    CHOOSE n \in S : \A m \in S : m[2] < n[2] \/ (m[2] = n[2] /\ m[1] <= n[1])

\* In the step from g to h every Lava cell of g is Rock without temperature
\* if T - 5 <= 0 and Lava at T - 5 otherwise, and every cell that turned
\* Lava was Water next to a Lava cell of g.
LavaCoolsAndSpreadsByOne(g, h) ==
    /\ \A p \in Pos : g[p].cell_type = LAVA =>
          IF LavaT(g[p]) - 5 <= 0
          THEN h[p].cell_type = ROCK /\ h[p].temp = None
          ELSE h[p].cell_type = LAVA /\ h[p].temp = LavaT(g[p]) - 5
                                     /\ h[p].temp < LavaT(g[p])
    /\ \A q \in Pos : (h[q].cell_type = LAVA /\ g[q].cell_type # LAVA) =>
          g[q].cell_type = WATER /\ LavaSources(g, q) # {}

\* C14, as stated: the lava transition of a step reads the prior grid, and
\* every Water neighbour of a Lava cell that stays Lava becomes Lava at
\* that cell's T - 15.
C14_LavaTransition ==
    [][last'.op = "step" =>
         /\ LavaCoolsAndSpreadsByOne(grid, grid')
         /\ \A q \in Pos : grid[q].cell_type = WATER =>
               \A n \in LavaSources(grid, q) :
                   /\ grid'[q].cell_type = LAVA
                   /\ grid'[q].temp = LavaT(grid[n]) - 15]_vars

\* C14, amended: as stated, except that a Water cell with several Lava
\* neighbours takes T - 15 of the one the row-by-row scan visits last.
C14_LavaTransitionLastWriter ==
    [][last'.op = "step" =>
         /\ LavaCoolsAndSpreadsByOne(grid, grid')
         /\ \A q \in Pos :
               (grid[q].cell_type = WATER /\ LavaSources(grid, q) # {}) =>
                   /\ grid'[q].cell_type = LAVA
                   /\ grid'[q].temp =
                         LavaT(grid[LastScanned(LavaSources(grid, q))]) - 15]_vars

\* After a step the centre is Lava at 85 between lava at 80 above it and
\* lava at 95 to its right: it took 100 - 15 from the right neighbour, which
\* the scan visits after the upper one.
C14_Witness ==
    /\ last.op = "step"
    /\ grid[<<1, 1>>].cell_type = LAVA /\ grid[<<1, 1>>].temp = 85
    /\ grid[<<1, 0>>].cell_type = LAVA /\ grid[<<1, 0>>].temp = 80
    /\ grid[<<2, 1>>].cell_type = LAVA /\ grid[<<2, 1>>].temp = 95

\* C15: every cell that is an Agent with the same organism id before and
\* after a step has aged by exactly one in that step.
C15_EveryAgentAgesOnce ==
    [][last'.op = "step" =>
         \A p \in Pos :
             (/\ is_agent(grid[p]) /\ is_agent(grid'[p])
              /\ grid'[p].agent_id = grid[p].agent_id)
             => grid'[p].age = grid[p].age + 1]_vars

\* Visiting the cell p at the state s of the agent pass over old left r:
\* every cell other than p that the visit wrote was Water in old, still as
\* in old (written by nothing before in this step), and is now an Agent.
WritesOK(old, s, r, p) ==
    \A q \in Pos : (q # p /\ r.g[q] # s.g[q]) =>
        /\ old[q].cell_type = WATER
        /\ s.g[q] = old[q]
        /\ is_agent(r.g[q])

\* WritesOK at every visit of the agent pass from cell number i on, for
\* every state in S the pass can be in there.
RECURSIVE PassWritesOK(_, _, _, _)
PassWritesOK(old, S, i, cur) ==
    IF i >= width * height THEN TRUE
    ELSE LET p == <<i % width, i \div width>>
             S1 == {[s EXCEPT !.brk = (p[1] # 0) /\ @] : s \in S}
         IN  /\ \A s \in S1 : \A r \in VisitCell(old, s, p, cur) :
                   WritesOK(old, s, r, p)
             /\ PassWritesOK(old, UNION {VisitCell(old, s, p, cur) : s \in S1},
                             i + 1, cur)

\* C16: in the step from any reachable state, the environment pass leaves
\* every Agent cell as it was, and each visit of the agent pass writes,
\* apart from the visited cell, only cells that were Water in the prior
\* generation and that nothing has written before in that step, turning
\* them into Agents.
C16_AgentWritesNeverConflict ==
    LET g0 == update_environment(grid, grid)
    IN  /\ \A p \in Pos : is_agent(grid[p]) => g0[p] = grid[p]
        /\ PassWritesOK(grid,
                        {[g |-> g0, nid |-> next_agent_id, brk |-> FALSE]},
                        0, current)

\* After a step the stem at (2, 0) and the root below it have both paid
\* the reproduction cost, and the only spore of the step sits at (1, 0), a
\* cell within the spawn radius of both.
C16_Witness ==
    /\ last.op = "step"
    /\ is_agent(grid[<<1, 0>>])
    /\ grid[<<1, 0>>].subtype = SUBTYPE_SPORE /\ grid[<<1, 0>>].age = 0
    /\ grid[<<1, 0>>].agent_id = next_agent_id - 1
    /\ is_agent(grid[<<2, 0>>]) /\ grid[<<2, 0>>].nutrient = -90
    /\ is_agent(grid[<<2, 1>>]) /\ grid[<<2, 1>>].nutrient = 100
    /\ Cardinality({p \in Pos : is_agent(grid[p]) /\ grid[p].age = 0}) = 1

\* Cell q of g is a Spore of organism k.
IsSpore(g, q, k) ==
    is_agent(g[q]) /\ g[q].subtype = SUBTYPE_SPORE /\ g[q].agent_id = k

\* C17: in a step a Spore at p is afterwards a Spore at no cell but p and
\* p + (dx, dy), and at one of them at most; when it is at p + (dx, dy),
\* the current is on, that cell was Water, p is Water, and the spore has its
\* species, age + 1 and spore_age + 1.
C17_SporeDriftRelocates ==
    [][last'.op = "step" =>
         \A p \in Pos : IsSpore(grid, p, grid[p].agent_id) =>
             LET k == grid[p].agent_id
                 t == <<p[1] + current.dx, p[2] + current.dy>>
                 at == {q \in Pos : IsSpore(grid', q, k)}
             IN  /\ at \subseteq {p, t}
                 /\ Cardinality(at) <= 1
                 /\ (current.strength = 0 \/ t = p) => at \subseteq {p}
                 /\ (t # p /\ t \in at) =>
                       /\ grid[t].cell_type = WATER
                       /\ grid'[p].cell_type = WATER
                       /\ ~is_agent(grid'[p])
                       /\ grid'[t].species_id = grid[p].species_id
                       /\ grid'[t].age = grid[p].age + 1
                       /\ grid'[t].spore_age = grid[p].spore_age + 1]_vars

\* After the plant was cleared and a current to the right was set, a step
\* has left a single agent: a spore one cell to the right of the left
\* column, where it had been.
C17_Witness ==
    /\ last.op = "step"
    /\ calls = 4
    /\ current.dx = 1
    /\ IsSpore(grid, <<1, 0>>, grid[<<1, 0>>].agent_id)
    /\ grid[<<1, 0>>].spore_age >= 1
    /\ grid[<<0, 0>>].cell_type = WATER
    /\ Cardinality({p \in Pos : is_agent(grid[p])}) = 1

\* The Root cells of g that have lost their substrate: in the bottom row,
\* or above a cell their species cannot attach to.
LostRoots(g) ==
    {p \in Pos :
       /\ is_agent(g[p]) /\ g[p].subtype = SUBTYPE_ROOT
       /\ \/ p[2] = height - 1
          \/ g[<<p[1], p[2] + 1>>].cell_type
                \notin species_defs[g[p].species_id].allowed_substrates}

\* C18: in a step every Root that has lost its substrate becomes Water; when
\* every agent is such a Root, the step leaves no agent and allocates no
\* organism id.
C18_RootSubstrateLoss ==
    [][last'.op = "step" =>
         /\ \A p \in LostRoots(grid) :
               grid'[p].cell_type = WATER /\ ~is_agent(grid'[p])
         /\ (\A p \in Pos : is_agent(grid[p]) => p \in LostRoots(grid)) =>
               /\ \A p \in Pos : ~is_agent(grid'[p])
               /\ next_agent_id' = next_agent_id]_vars

\* The nutrient of the agent cell c of species spec in row y after substrate
\* and light absorption.
NutrientAbsorbed(c, spec, y) ==
    c.nutrient
    + (IF c.subtype = SUBTYPE_ROOT THEN spec.substrate_absorb_rate ELSE 0)
    + (IF c.subtype \in {SUBTYPE_STEM, SUBTYPE_REPRO}
          \/ c.species_id = SPECIES_CORAL
       THEN Max(0, ((height - 1 - y) * spec.light_absorb_rate) \div 10)
       ELSE 0)

\* The agents of g that keep their substrate and that the death check of
\* the next step kills: too old, or starved.
Doomed(g) ==
    {p \in Pos :
       /\ is_agent(g[p]) /\ p \notin LostRoots(g)
       /\ LET spec == species_defs[g[p].species_id]
          IN  \/ g[p].age + 1 > spec.max_age
              \/ NutrientAbsorbed(g[p], spec, p[2]) < 0}

\* C19: in a step every agent the death check kills becomes Sand if it is a
\* Root and Water otherwise, with every agent field cleared; and no agent
\* that aged in the step is older than its species' max_age.
C19_DeathCheck ==
    [][last'.op = "step" =>
         /\ \A p \in Doomed(grid) :
               /\ grid'[p].cell_type =
                     IF grid[p].subtype = SUBTYPE_ROOT THEN SAND ELSE WATER
               /\ grid'[p].species_id = None /\ grid'[p].subtype = None
               /\ grid'[p].agent_id = None /\ grid'[p].nutrient = 0
               /\ grid'[p].age = 0 /\ grid'[p].spore_age = 0
         /\ \A p \in Pos :
               (is_agent(grid[p]) /\ is_agent(grid'[p])
                /\ grid'[p].age = grid[p].age + 1)
               => grid'[p].age <= species_defs[grid'[p].species_id].max_age]_vars

(***************************************************************************)
(* The tall specification: Simulation(TallWidth, TallHeight), a grid deep  *)
(* enough for light to feed a coral spore in the top row up to the growth  *)
(* threshold within its life.  The caller plants a coral seed at the right *)
(* end of the floor, steps until the seed is old enough to have            *)
(* reproduced, paints everything between the top row and the floor back to *)
(* Water, which leaves at most a spore in the top row, and from then on    *)
(* steps and may set a current to the right once, up to MaxTallSteps       *)
(* steps.                                                                  *)
(***************************************************************************)
TallWidth == 2
TallHeight == 6
MaxTallSteps == 28

InitTall ==
    /\ width = TallWidth
    /\ height = TallHeight
    /\ grid = InitGrid
    /\ next_agent_id = 1
    /\ current = [dx |-> 0, dy |-> 0, strength |-> 0]
    /\ time_step = 0
    /\ cell_counts = <<>>
    /\ indiv_counts = <<>>
    /\ calls = 0
    /\ last = [op |-> "init", args |-> <<>>, ret |-> None]

\* The step after which the caller clears the plant: the coral's repro_age.
TallClearStep == species_defs[SPECIES_CORAL].repro_age

TallPlant ==
    /\ calls = 0
    /\ plant_seed(width - 1, height - 2, SPECIES_CORAL)

TallClear ==
    /\ calls = 1
    /\ time_step = TallClearStep
    /\ paint_area(0, 1, width - 1, height - 2, WATER)

TallCurrent ==
    /\ calls = 2
    /\ set_current(1, 0, 1000)

TallStep ==
    /\ \/ calls = 1 /\ time_step < TallClearStep
       \/ calls >= 2
    /\ time_step < MaxTallSteps
    /\ step

NextTall == TallPlant \/ TallClear \/ TallCurrent \/ TallStep

SpecTall == InitTall /\ [][NextTall]_vars

\* The cells a step turns into growth cells: new agents of age 0 with an
\* organism id that was allocated before the step.
GrowthCells(g, h, nid) ==
    {q \in Pos : /\ ~is_agent(g[q]) /\ is_agent(h[q])
                 /\ h[q].age = 0 /\ h[q].agent_id < nid}

\* The orthogonal neighbours of q in the grid.
Orthogonal(q) ==
    {p \in Pos : \/ (p[1] = q[1] /\ (p[2] = q[2] - 1 \/ p[2] = q[2] + 1))
                 \/ (p[2] = q[2] /\ (p[1] = q[1] - 1 \/ p[1] = q[1] + 1))}

\* Where the agent that was at p in g is in h, a step with the current cur
\* later: at p, or, a spore that drifted, at p + (dx, dy); {} if it is gone.
ParentAfter(g, h, p, cur) ==
    {t \in {p, <<p[1] + cur.dx, p[2] + cur.dy>>} :
       /\ t \in Pos /\ is_agent(h[t])
       /\ h[t].agent_id = g[p].agent_id
       /\ h[t].age = g[p].age + 1}

\* The agent at p in g can be the parent of the growth cell at q in h: it
\* has q's organism and species, its nutrient after absorption and after a
\* reproduction cost, if it paid one, was at least growth_threshold, and in
\* h it has that nutrient less growth_threshold * 0.7 (plus the attachment
\* bonus, for a spore that became a root).
IsGrowthParent(g, h, p, q, cur) ==
    /\ is_agent(g[p])
    /\ g[p].agent_id = h[q].agent_id
    /\ g[p].species_id = h[q].species_id
    /\ LET spec == species_defs[g[p].species_id]
           n == NutrientAbsorbed(g[p], spec, p[2])
       IN  \E cost \in {0, spec.growth_threshold \div 2} :
              /\ n - cost >= spec.growth_threshold
              /\ \A t \in ParentAfter(g, h, p, cur) :
                    h[t].nutrient =
                       n - cost - (spec.growth_threshold * 7) \div 10
                       + (IF g[p].subtype = SUBTYPE_SPORE
                             /\ h[t].subtype = SUBTYPE_ROOT
                          THEN spec.initial_nutrient ELSE 0)

\* C20: in a step every growth cell was Water, lies next to a parent that
\* had the nutrient to grow and has paid for it, has half the species'
\* initial nutrient, and is a Root over an attachable cell of the prior
\* generation and a Stem otherwise; an organism gets no more growth cells
\* than it had cells.
C20_GrowthRule ==
    [][last'.op = "step" =>
         /\ \A q \in GrowthCells(grid, grid', next_agent_id) :
               LET spec == species_defs[grid'[q].species_id]
               IN  /\ grid[q].cell_type = WATER
                   /\ grid'[q].nutrient = spec.initial_nutrient \div 2
                   /\ grid'[q].subtype =
                         IF /\ q[2] + 1 < height
                            /\ grid[<<q[1], q[2] + 1>>].cell_type
                                  \in spec.allowed_substrates
                         THEN SUBTYPE_ROOT ELSE SUBTYPE_STEM
                   /\ \E p \in Orthogonal(q) :
                         IsGrowthParent(grid, grid', p, q, current)
         /\ \A k \in 1 .. next_agent_id - 1 :
               Cardinality({q \in GrowthCells(grid, grid', next_agent_id) :
                              grid'[q].agent_id = k})
               <= Cardinality({p \in Pos : is_agent(grid[p])
                                           /\ grid[p].agent_id = k})]_vars

\* The agent at p in g is too young to reproduce in the next step: its new
\* age is below its species' repro_age.
TooYoung(g, p) ==
    is_agent(g[p]) /\ g[p].age + 1 < species_defs[g[p].species_id].repro_age

\* C21: the reproduction chance is 0 below repro_age and base_repro_prob
\* from repro_age on.  In a step, an agent that is too young to reproduce
\* and is still at its cell afterwards, one step older, has its nutrient
\* after absorption, less the growth cost if it grew, plus the attachment
\* bonus if it is a spore that became a root: it has paid no reproduction
\* cost.  A step in which every agent is too young creates no spore and
\* leaves the organism-id allocator alone.
C21_ReproductionAgeGate ==
    /\ [](\A sid \in SPECIES_NAMES :
            LET spec == species_defs[sid]
            IN  /\ \A a \in 0 .. spec.repro_age - 1 : reproduce_chance(spec, a) = 0
                /\ reproduce_chance(spec, spec.repro_age) = spec.base_repro_prob)
    /\ [][last'.op = "step" =>
            /\ \A p \in Pos :
                  (/\ TooYoung(grid, p) /\ is_agent(grid'[p])
                   /\ grid'[p].agent_id = grid[p].agent_id
                   /\ grid'[p].age = grid[p].age + 1) =>
                  LET spec == species_defs[grid[p].species_id]
                      n == NutrientAbsorbed(grid[p], spec, p[2])
                           + (IF grid[p].subtype = SUBTYPE_SPORE
                                 /\ grid'[p].subtype = SUBTYPE_ROOT
                              THEN spec.initial_nutrient ELSE 0)
                  IN  grid'[p].nutrient
                         \in {n, n - (spec.growth_threshold * 7) \div 10}
            /\ (\A p \in Pos : is_agent(grid[p]) => TooYoung(grid, p)) =>
                  /\ NewSpores(grid, grid') = {}
                  /\ next_agent_id' = next_agent_id]_vars

\* A step has left a seed's organism with a third cell, made by growth,
\* while every agent is still younger than its species' repro_age and the
\* allocator has handed out the seed's id only.
C21_Witness ==
    /\ last.op = "step"
    /\ next_agent_id = 2
    /\ Cardinality({p \in Pos : is_agent(grid[p])}) >= 3
    /\ \A p \in Pos : is_agent(grid[p]) =>
          /\ grid[p].age < species_defs[grid[p].species_id].repro_age
          /\ grid[p].agent_id = 1

\* The agents of g of species sid that are old enough to reproduce in the
\* next step.
OldEnough(g, sid) ==
    {p \in Pos : /\ is_agent(g[p]) /\ g[p].species_id = sid
                 /\ g[p].age + 1 >= species_defs[sid].repro_age}

\* The agent at p in g can be the parent of the spore spawned at q in h: it
\* has q's species, is old enough, lies within Chebyshev distance 3 of q,
\* and wherever it is in h it has its nutrient after absorption less
\* growth_threshold * 0.5 (less the growth cost if it also grew, plus the
\* attachment bonus for a spore that became a root).
IsSpawnParent(g, h, p, q, cur) ==
    /\ p \in OldEnough(g, h[q].species_id)
    /\ p[1] - q[1] \in -3 .. 3 /\ p[2] - q[2] \in -3 .. 3
    /\ LET spec == species_defs[g[p].species_id]
           n == NutrientAbsorbed(g[p], spec, p[2]) - spec.growth_threshold \div 2
       IN  \A t \in ParentAfter(g, h, p, cur) :
              h[t].nutrient
                 - (IF g[p].subtype = SUBTYPE_SPORE /\ h[t].subtype = SUBTYPE_ROOT
                    THEN spec.initial_nutrient ELSE 0)
                 \in {n, n - (spec.growth_threshold * 7) \div 10}

\* C22: in a step every spawned spore is at a cell that was Water, within
\* Chebyshev distance 3 of a parent of its species that has paid
\* growth_threshold * 0.5; it has age 0, spore_age 0, half the species'
\* initial nutrient and an organism id the allocator had not handed out; no
\* species gets more spores than it has agents old enough to reproduce, and
\* the allocator advances by exactly the number of spores placed.
C22_ReproductionCostAndPlacement ==
    [][last'.op = "step" =>
         LET new == NewSpores(grid, grid')
         IN  /\ next_agent_id' = next_agent_id + Cardinality(new)
             /\ Cardinality({grid'[q].agent_id : q \in new}) = Cardinality(new)
             /\ \A q \in new :
                   /\ grid[q].cell_type = WATER
                   /\ grid'[q].spore_age = 0
                   /\ grid'[q].nutrient =
                         species_defs[grid'[q].species_id].initial_nutrient \div 2
                   /\ grid'[q].agent_id >= next_agent_id
                   /\ grid'[q].agent_id < next_agent_id'
                   /\ \E p \in Pos : IsSpawnParent(grid, grid', p, q, current)
             /\ \A sid \in SPECIES_NAMES :
                   Cardinality({q \in new : grid'[q].species_id = sid})
                      <= Cardinality(OldEnough(grid, sid))]_vars

(***************************************************************************)
(* The attachment specification: the engine as constructed and a caller    *)
(* that follows a script.  The caller paints the floor under the left      *)
(* column Sand, which seaweed cannot attach to, plants a seaweed seed in    *)
(* the middle of the row above the floor, steps until the seed is old      *)
(* enough to have reproduced, paints the column holding the plant back to  *)
(* Water, which leaves the cell the plant grew and the spores it spawned,  *)
(* and from then on steps and may set an upward current once, up to        *)
(* MaxAttachSteps steps: long enough for the grown cell to reproduce.      *)
(***************************************************************************)
MaxAttachSteps == 14

AttachPrepare ==
    /\ calls = 0
    /\ paint_area(0, height - 1, 0, height - 1, SAND)

AttachPlant ==
    /\ calls = 1
    /\ plant_seed(1, height - 2, SPECIES_SEAWEED)

AttachClear ==
    /\ calls = 2
    /\ time_step = SporeClearStep
    /\ paint_area(1, 0, 1, height - 2, WATER)

AttachCurrent ==
    /\ calls = 3
    /\ \E s \in Strengths \ {0} : set_current(0, -1, s)

AttachStep ==
    /\ \/ calls = 2 /\ time_step < SporeClearStep
       \/ calls >= 3
    /\ time_step < MaxAttachSteps
    /\ step

NextAttach ==
    AttachPrepare \/ AttachPlant \/ AttachClear \/ AttachCurrent \/ AttachStep

SpecAttach == Init /\ [][NextAttach]_vars

\* The spores of g that the death check of the next step lets live and
\* whose cell below is a substrate of their species.
AttachingSpores(g) ==
    {p \in Pos :
       /\ is_agent(g[p]) /\ g[p].subtype = SUBTYPE_SPORE
       /\ p \notin Doomed(g)
       /\ p[2] + 1 < height
       /\ can_attach(species_defs[g[p].species_id], g[<<p[1], p[2] + 1>>].cell_type)}

\* C23: in a step a Spore that survives the death check and whose cell
\* below is attachable becomes, at its own cell and with its organism id, a
\* Root with initial_nutrient added to its nutrient (after a reproduction or
\* growth cost, if it paid one), provided spore_age + 1 does not exceed
\* spore_life; when it does, the cell becomes Water.
C23_SporeAttachment ==
    [][last'.op = "step" =>
         \A p \in AttachingSpores(grid) :
            LET spec == species_defs[grid[p].species_id]
                n == grid[p].nutrient + spec.initial_nutrient
            IN  IF grid[p].spore_age + 1 <= spec.spore_life
                THEN /\ is_agent(grid'[p])
                     /\ grid'[p].subtype = SUBTYPE_ROOT
                     /\ grid'[p].agent_id = grid[p].agent_id
                     /\ grid'[p].species_id = grid[p].species_id
                     /\ grid'[p].nutrient \in
                           {n - c - d : c \in {0, spec.growth_threshold \div 2},
                                        d \in {0, (spec.growth_threshold * 7) \div 10}}
                ELSE grid'[p].cell_type = WATER /\ ~is_agent(grid'[p])]_vars

(***************************************************************************)
(* The cooling specification: the engine as constructed and a caller that  *)
(* makes all its eruptions and paints before the first step, each on a     *)
(* single cell, and then only steps, up to MaxCoolSteps steps: one more    *)
(* than erupted lava takes to cool to Rock.                                *)
(***************************************************************************)
MaxCoolCalls == 3
MaxCoolSteps == 21

CoolErupt ==
    /\ time_step = 0
    /\ calls < MaxCoolCalls
    /\ \E p \in Pos : erupt_volcano(p[1], p[2], 1, 0)

CoolPaint ==
    /\ time_step = 0
    /\ calls < MaxCoolCalls
    /\ \E p \in Pos, t \in PaintTypes : paint_area(p[1], p[2], p[1], p[2], t)

CoolStep ==
    /\ time_step < MaxCoolSteps
    /\ step

NextCool == CoolErupt \/ CoolPaint \/ CoolStep

SpecCool == Init /\ [][NextCool]_vars

\* The number of steps lava at the eruption temperature takes to solidify:
\* 100 at a cool rate of 5 per step.
LavaLifeBound == 100 \div 5

\* The number of steps after which the lava of g has all solidified if none
\* is added: a lava cell at temperature t solidifies in the step in which
\* t - 5 * k <= 0, and in the next step if t <= 0 already.
LavaLife(g) ==
    LET left(c) == LET t == IF c.temp = None THEN 100 ELSE c.temp
                   IN  IF t <= 5 THEN 1 ELSE (t + 4) \div 5
        lava == {p \in Pos : g[p].cell_type = LAVA}
    IN  IF lava = {} THEN 0
        ELSE CHOOSE k \in {left(g[p]) : p \in lava} :
                \A p \in lava : left(g[p]) <= k

\* C24: lava always dies out.  No lava needs more than 20 steps to
\* solidify, every step takes one off the number of steps the hottest lava
\* of the grid needs, lava made by spreading included, and when every
\* eruption and paint comes before the first step, no cell is Lava after 20
\* steps.
C24_LavaDiesOut ==
    /\ [](LavaLife(grid) <= LavaLifeBound)
    /\ [](time_step >= LavaLifeBound => \A p \in Pos : grid[p].cell_type # LAVA)
    /\ [][last'.op = "step" =>
            LavaLife(grid') <= Max(LavaLife(grid) - 1, 0)]_vars

\* After 20 steps the lava of the eruptions has spread over every cell that
\* was Water and all of it is Rock.
C24_Witness ==
    /\ time_step = LavaLifeBound /\ last.op = "step" /\ calls >= 1
    /\ \A p \in Pos : grid[p].cell_type = ROCK

(***************************************************************************)
(* The sand specification: the engine as constructed and a caller that     *)
(* paints rectangles one cell high and one or two cells wide with Water,   *)
(* Sand, Rock or CoralRock before the first step and then only steps, up   *)
(* to MaxSandSteps steps.  The grid holds no lava and no agent.  The       *)
(* caller's loop calls step() once per frame for as long as it runs, which *)
(* is the weak fairness of SandStep in LiveSand.                           *)
(***************************************************************************)
MaxSandCalls == 3
MaxSandSteps == 6

SandPaint ==
    /\ time_step = 0
    /\ calls < MaxSandCalls
    /\ \E p \in Pos, w \in {0, 1}, t \in PaintTypes :
          paint_area(p[1], p[2], p[1] - w, p[2], t)

SandStep ==
    /\ time_step < MaxSandSteps
    /\ step

NextSand == SandPaint \/ SandStep

SpecSand == Init /\ [][NextSand]_vars

LiveSand == SpecSand /\ WF_vars(SandStep)

\* Every Sand cell of g above the bottom row has no Water directly below,
\* down-left or down-right of it.
SandAtRest(g) ==
    \A p \in Pos :
       (g[p].cell_type = SAND /\ p[2] < height - 1) =>
          \A d \in {-1, 0, 1} :
             InGrid(p[1] + d, p[2] + 1) => g[<<p[1] + d, p[2] + 1>>].cell_type # WATER

\* C25: sand eventually settles.  In a grid of Water, Sand, Rock and
\* CoralRock a step leaves the grid unchanged exactly when every Sand cell
\* above the bottom row has no Water below, down-left or down-right of it,
\* and repeated steps reach such a grid and stay in it.
C25_SandSettles ==
    /\ [](\A p \in Pos : grid[p].cell_type \in {WATER, SAND, ROCK, CORAL_ROCK})
    /\ [][last'.op = "step" => (grid' = grid <=> SandAtRest(grid))]_vars
    /\ <>[]SandAtRest(grid)

\* After two steps the sand is at rest in a pile: a Sand cell on the bottom
\* row with a Sand cell on top of it, and Water above.
C25_Witness ==
    /\ last.op = "step" /\ time_step >= 2 /\ SandAtRest(grid)
    /\ \E x \in 0 .. width - 1 :
          /\ grid[<<x, height - 1>>].cell_type = SAND
          /\ grid[<<x, height - 2>>].cell_type = SAND
          /\ grid[<<x, height - 3>>].cell_type = WATER

(***************************************************************************)
(* The two-species specification: the engine as constructed and a caller   *)
(* that plants a seaweed seed at the left end of the row above the floor   *)
(* and a seed of another species at the right end, makes at most one more  *)
(* call (a current, a one-cell eruption or a one-cell paint), and steps up *)
(* to MaxTwoSteps steps: long enough for both plants to grow and for the   *)
(* seaweed to spawn spores next to the other plant.                        *)
(***************************************************************************)
MaxTwoSteps == 9

TwoPlantFirst ==
    /\ calls = 0
    /\ plant_seed(0, height - 2, SPECIES_SEAWEED)

TwoPlantSecond ==
    /\ calls = 1
    /\ \E sp \in SPECIES_NAMES \ {SPECIES_SEAWEED} :
          plant_seed(width - 1, height - 2, sp)

TwoCurrent ==
    /\ calls = 2
    /\ \E dx \in {-1, 1} : set_current(dx, 0, 1000)

TwoErupt ==
    /\ calls = 2
    /\ \E p \in Pos : erupt_volcano(p[1], p[2], 1, 0)

TwoPaint ==
    /\ calls = 2
    /\ \E p \in Pos : paint_area(p[1], p[2], p[1], p[2], WATER)

TwoStep ==
    /\ calls >= 2
    /\ time_step < MaxTwoSteps
    /\ step

NextTwo ==
    TwoPlantFirst \/ TwoPlantSecond \/ TwoCurrent \/ TwoErupt \/ TwoPaint \/ TwoStep

SpecTwo == Init /\ [][NextTwo]_vars

\* C26: organism membership is species-consistent.  In every reachable
\* state any two Agent cells with the same organism id have the same
\* species.
C26_OrganismOneSpecies ==
    \A p, q \in Pos :
       (is_agent(grid[p]) /\ is_agent(grid[q])
        /\ grid[p].agent_id = grid[q].agent_id)
       => grid[p].species_id = grid[q].species_id

\* Two organisms of different species, one of which has grown a third cell,
\* next to a spore that a step has just spawned.
C26_Witness ==
    /\ last.op = "step"
    /\ \E p, q \in Pos :
          /\ is_agent(grid[p]) /\ is_agent(grid[q])
          /\ grid[p].species_id # grid[q].species_id
          /\ Cardinality({r \in Pos : is_agent(grid[r])
                                      /\ grid[r].agent_id = grid[q].agent_id}) >= 3
    /\ \E s \in Pos : is_agent(grid[s]) /\ grid[s].subtype = SUBTYPE_SPORE
                      /\ grid[s].age = 0

\* The cells of g that are Rock or CoralRock.
SolidCells(g) == {p \in Pos : g[p].cell_type \in {ROCK, CORAL_ROCK}}

\* C27: solid substrate is stable under step().  A cell that is Rock or
\* CoralRock before a step has the same substance and the same fields after
\* it; only paint_area, erupt_volcano and plant_seed change such a cell.
C27_SolidSubstrateStable ==
    [][/\ last'.op = "step" => \A p \in SolidCells(grid) : grid'[p] = grid[p]
       /\ (\E p \in SolidCells(grid) : grid'[p] # grid[p])
             => last'.op \in {"paint_area", "erupt_volcano", "plant_seed"}]_vars

\* A step has spread lava next to a CoralRock cell, which is still there.
C27_Witness ==
    /\ last.op = "step"
    /\ \E p \in Pos :
          /\ grid[p].cell_type = CORAL_ROCK
          /\ \E d \in {<<-1, 0>>, <<1, 0>>, <<0, -1>>, <<0, 1>>} :
                /\ InGrid(p[1] + d[1], p[2] + d[2])
                /\ grid[<<p[1] + d[1], p[2] + d[2]>>].cell_type = LAVA
                /\ grid[<<p[1] + d[1], p[2] + d[2]>>].temp < 95

====
